---- MODULE Spec2Model ----
(***************************************************************************)
(* Low-level model builders of libopenapi: v3 Paths (pipeline driven) and  *)
(* v2 Responses (simple extraction), with their Build, Find and Hash.      *)
(*                                                                         *)
(* Strings are sequences of byte values, so that strings.ToLower,          *)
(* strings.HasPrefix, sort.Strings and strings.Join are computed on the    *)
(* bytes as the Go code computes them.                                     *)
(***************************************************************************)
EXTENDS Integers, Sequences, FiniteSets, TLC

(***************************************************************************)
(* Bounds of the model.                                                    *)
(***************************************************************************)
\* largest number of key/value pairs in a Paths root
MaxPairs == 3
\* largest number of items in a sequence (non-mapping) root
MaxSeqItems == 2
\* size of the pool of transform workers of the pipeline
Concurrency == 2
\* number of times Paths.Build is run on the same root and index
MaxRuns == 2
\* largest number of key/value pairs in a Responses root
MaxCodes == 2
\* number of Responses.Build calls on one Responses value
MaxBuilds == 2
\* largest number of children of an object whose Hash is taken
MaxHashLen == 3
\* largest number of key/value pairs in a root on which the protocol of
\* the goroutines of Paths.Build is checked
MaxChanPairs == 2

(***************************************************************************)
(* Byte strings.                                                           *)
(***************************************************************************)
\* "x-"
ExtPrefix == <<120, 45>>
\* "default" (DefaultLabel of package v2)
DefaultLabel == <<100, 101, 102, 97, 117, 108, 116>>
\* "-" and "|"
Dash == <<45>>
Bar == <<124>>

\* unicode.ToLower on one ASCII byte
LowerByte(c) == IF c >= 65 /\ c <= 90 THEN c + 32 ELSE c

\* strings.ToLower
ToLower(s) == [i \in 1..Len(s) |-> LowerByte(s[i])]

\* strings.HasPrefix
HasPrefix(s, prefix) ==
    /\ Len(s) >= Len(prefix)
    /\ SubSeq(s, 1, Len(prefix)) = prefix

\* the < of Go strings: bytewise lexicographic order
RECURSIVE StrLess(_, _)
StrLess(a, b) ==
    IF b = <<>> THEN FALSE
    ELSE IF a = <<>> THEN TRUE
    ELSE IF a[1] # b[1] THEN a[1] < b[1]
    ELSE StrLess(Tail(a), Tail(b))

\* insertion of one string into a sorted list
RECURSIVE InsertSorted(_, _)
InsertSorted(s, l) ==
    IF l = <<>> THEN <<s>>
    ELSE IF StrLess(s, l[1]) THEN <<s>> \o l
    ELSE <<l[1]>> \o InsertSorted(s, Tail(l))

\* a mutation of sort.Strings that leaves the list as it is
SortStringsNoSort(l) == l

\* sort.Strings: the list in increasing order
RECURSIVE SortStrings(_)
SortStrings(l) ==
    IF l = <<>> THEN <<>>
    ELSE InsertSorted(l[1], SortStrings(Tail(l)))

\* strings.Join
RECURSIVE Join(_, _)
Join(f, sep) ==
    IF f = <<>> THEN <<>>
    ELSE IF Len(f) = 1 THEN f[1]
    ELSE f[1] \o sep \o Join(Tail(f), sep)

\* fmt.Sprintf("%s-%s", a, b)
SprintfDash(a, b) == a \o Dash \o b

\* sha256.Sum256: the digest stands for its input (no collisions)
Sum256(bytes) == <<"sha256", bytes>>

\* low.GenerateHashString of a built child: the hex digest of the child's
\* own Hash, a function of the child's content ("h" and one digit here)
GenerateHashString(body) == <<104, 48 + body>>

\* fmt.Sprintf("%x", sha256.Sum256([]byte(fmt.Sprint(v)))) of an extension
\* value ("e" and one digit here)
ExtValueHex(v) == <<101, 48 + v>>

(***************************************************************************)
(* yaml nodes.  A node is a record; a pointer to a node is its Id, 0 is    *)
(* the nil pointer.  The nodes of root.Content have the Ids 1..Len, the    *)
(* Id of Content[i] of the Go code (0-based) is i + 1.  A reference node   *)
(* {$ref: text} is a mapping whose Content[1] (the text node) is kept in   *)
(* the fields Ref, RefLine and RefColumn; Ref is empty for any other node. *)
(***************************************************************************)
NilPtr == 0

\* "#/t", "#/c", "#/m": a reference the index finds, one it finds with a
\* circular reference error, one it does not find
RefFound == <<35, 47, 116>>
RefCircular == <<35, 47, 99>>
RefMissing == <<35, 47, 109>>

\* Ids of the nodes the index owns
IndexIds == [found |-> 101, circular |-> 102]

MkNode(kind, value, line, col, ref, body, fails) ==
    [Kind |-> kind, Value |-> value, Line |-> line, Column |-> col,
     Ref |-> ref, RefLine |-> IF ref = <<>> THEN 0 ELSE line,
     RefColumn |-> IF ref = <<>> THEN 0 ELSE col + 6,
     Body |-> body, Fails |-> fails]

\* the nodes of the index
IndexNode(id) ==
    IF id = IndexIds.found THEN MkNode("map", <<>>, 40, 3, <<>>, 3, FALSE)
    ELSE MkNode("map", <<>>, 50, 3, <<>>, 5, FALSE)

\* key texts: "/" , "x-" or "X-" followed by one letter; the letter falls
\* with the position, so that document order is not sorted order
KeyLetter(j) == 122 - j
KeyKinds == {"path", "ext", "EXT"}
KeyText(kind, j) ==
    IF kind = "path" THEN <<47, KeyLetter(j)>>
    ELSE IF kind = "ext" THEN <<120, 45, KeyLetter(j)>>
    ELSE <<88, 45, KeyLetter(j)>>

KeyNode(kind, j) == MkNode("scalar", KeyText(kind, j), 10 + j, 1, <<>>, 0, FALSE)

\* value nodes: a mapping that builds, a mapping whose child Build fails,
\* a scalar whose text is "x-v", and the three references
ValueKinds == {"obj", "bad", "xval", "ref", "refMissing", "refCirc"}
ValueNode(kind, j) ==
    IF kind = "obj" THEN MkNode("map", <<>>, 10 + j, 5, <<>>, 1, FALSE)
    ELSE IF kind = "bad" THEN MkNode("map", <<>>, 10 + j, 5, <<>>, 2, TRUE)
    ELSE IF kind = "xval" THEN MkNode("scalar", <<120, 45, 118>>, 10 + j, 5, <<>>, 4, FALSE)
    ELSE IF kind = "ref" THEN MkNode("map", <<>>, 10 + j, 5, RefFound, 0, FALSE)
    ELSE IF kind = "refMissing" THEN MkNode("map", <<>>, 10 + j, 5, RefMissing, 0, FALSE)
    ELSE MkNode("map", <<>>, 10 + j, 5, RefCircular, 0, FALSE)

\* the flat child list of a mapping: key, value, key, value, ...
RECURSIVE FlatContent(_, _)
FlatContent(pairs, j) ==
    IF pairs = <<>> THEN <<>>
    ELSE <<KeyNode(pairs[1][1], j), ValueNode(pairs[1][2], j)>>
             \o FlatContent(Tail(pairs), j + 1)

\* the pairs of a mapping: a path with any value; an extension with a
\* mapping or with the scalar "x-v" (the value of an extension is never
\* handed to construction, only its text is read)
PairKinds == ({"path"} \X ValueKinds) \cup ({"ext", "EXT"} \X {"obj", "xval"})
PairSeqs(n) == UNION {[1..k -> PairKinds] : k \in 0..n}

MkRoot(kind, content) ==
    [Kind |-> kind, Line |-> 3, Column |-> 7, Content |-> content]

\* the items of a root that is a sequence
SeqItems(j) == {KeyNode("path", j), ValueNode("obj", j)}
SeqContents(n) ==
    UNION {{c \in [1..k -> UNION {SeqItems(j) : j \in 0..n}] :
               \A i \in 1..k : c[i] \in SeqItems(i - 1)} : k \in 0..n}

\* the roots handed to Paths.Build: mappings, sequences and one scalar
PathsRoots ==
    {MkRoot("map", FlatContent(ps, 0)) : ps \in PairSeqs(MaxPairs)}
    \cup {MkRoot("seq", c) : c \in SeqContents(MaxSeqItems)}
    \cup {MkRoot("scalar", <<>>)}

HasValueRef(rt, ref) == \E i \in 1..Len(rt.Content) : rt.Content[i].Ref = ref
HasFailingChild(rt) == \E i \in 1..Len(rt.Content) : rt.Content[i].Fails

\* the indexes handed to Build with a root: the index may be nil, may have
\* no logger and may allow circular references; a field the root cannot
\* exercise is left at its default
Indexes(rt) ==
    {ix \in [IsNil : BOOLEAN, AllowCircular : BOOLEAN, HasLogger : BOOLEAN] :
        /\ ix.IsNil => ~ix.AllowCircular /\ ~ix.HasLogger
        /\ ix.AllowCircular => HasValueRef(rt, RefCircular)
        /\ (ix.IsNil \/ ~ix.HasLogger) => HasFailingChild(rt)}

\* utils.IsNodeMap
IsNodeMap(node) == node.Kind = "map"

\* utils.IsNodeRefValue: a mapping holding the single key $ref
IsNodeRefValue(node) == node.Kind = "map" /\ node.Ref # <<>>

(***************************************************************************)
(* Errors, references and the ordered map.                                 *)
(***************************************************************************)
MkErr(kind, text, line, col) ==
    [kind |-> kind, text |-> text, line |-> line, col |-> col]

\* the nil error
NoErr == MkErr("nil", <<>>, 0, 0)

\* low.KeyReference, low.ValueReference and low.NodeReference
KeyRef(value, keyNode) == [Value |-> value, KeyNode |-> keyNode]
ValueRef(value, valueNode) == [Value |-> value, ValueNode |-> valueNode]
NodeRef(value, keyNode, valueNode) ==
    [Value |-> value, KeyNode |-> keyNode, ValueNode |-> valueNode]

\* a built child (a PathItem or a Response): the node it was built from,
\* the content decoded from it and whether its own Build failed
Child(rootNode, body, failed) ==
    [Root |-> rootNode, Body |-> body, Failed |-> failed]
NoChild == Child(NilPtr, 0, FALSE)

\* the zero low.NodeReference
EmptyNodeRef == NodeRef(NoChild, NilPtr, NilPtr)

\* NodeReference.IsEmpty
IsEmpty(ref) == ref.KeyNode = NilPtr /\ ref.ValueNode = NilPtr /\ ref.Value = NoChild

\* an ordered map is the sequence of its pairs [key, value] in insertion
\* order; keys are equal when their decoded texts are equal
OMPos(m, text) ==
    IF \E i \in 1..Len(m) : m[i].key.Value = text
    THEN CHOOSE i \in 1..Len(m) :
             /\ m[i].key.Value = text
             /\ \A k \in 1..(i - 1) : m[k].key.Value # text
    ELSE 0

\* orderedmap Set: overwrite the value of a present key, else append
OMSet(m, key, value) ==
    IF OMPos(m, key.Value) # 0
    THEN [m EXCEPT ![OMPos(m, key.Value)].value = value]
    ELSE Append(m, [key |-> key, value |-> value])

\* orderedmap Delete: the other pairs keep their relative order
OMDelete(m, text) ==
    IF OMPos(m, text) = 0 THEN m
    ELSE SubSeq(m, 1, OMPos(m, text) - 1) \o SubSeq(m, OMPos(m, text) + 1, Len(m))

\* low.ExtractExtensions: the pairs of the flat child list whose key text
\* begins with "x-" (as written, case-sensitive)
ExtractExtensions(rt) ==
    {[key |-> KeyRef(rt.Content[i].Value, i), value |-> rt.Content[i + 1].Body] :
        i \in {k \in 1..(Len(rt.Content) - 1) :
                  k % 2 = 1 /\ HasPrefix(rt.Content[k].Value, ExtPrefix)}}

(***************************************************************************)
(* State.                                                                  *)
(***************************************************************************)
VARIABLES
    root,       \* the root node handed to Paths.Build
    idx,        \* the index handed to Paths.Build
    p,          \* the Paths value: PathItems, Extensions, Reference
    pc,         \* Paths.Build: "idle", "running" or "panic"
    ret,        \* what the last Paths.Build returned
    runs,       \* how many times Paths.Build has been run
    prevP,      \* the Paths value as the previous run left it
    pathsMap,   \* the local ordered map of Paths.Build
    chans,      \* how many times in, out and done have been closed
    wg,         \* the WaitGroup counter
    prod,       \* the input goroutine: pc, i, skip, currentNode
    cons,       \* the output goroutine: "recv" or "exited"
    pipe,       \* datamodel.TranslatePipeline: jobs, results, error
    sent,       \* the pairs sent on the in channel, in order
    logs,       \* what the index's logger has been given
    ctx,        \* the context handed to Paths.Build: "live" or "cancelled"
    r,          \* the Responses value: Codes, Default, Extensions
    rRoot,      \* the root handed to the last Responses.Build
    rRet,       \* what the last Responses.Build returned
    rPrev,      \* the Responses value before the last Responses.Build
    builds,     \* how many times Responses.Build has been called
    hIn,        \* two objects handed to Hash
    hOut        \* their digests

pathsVars == <<root, idx, p, pc, ret, runs, prevP, pathsMap, chans, wg, prod,
               cons, pipe, sent, logs, ctx>>
respVars == <<r, rRoot, rRet, rPrev, builds>>
hashVars == <<hIn, hOut>>
notPaths == <<respVars, hashVars>>
notResp == <<pathsVars, hashVars>>
notHash == <<pathsVars, respVars>>
vars == <<pathsVars, respVars, hashVars>>

\* the node a pointer of Paths.Build points to
NodeOf(id) == IF id > 100 THEN IndexNode(id) ELSE root.Content[id]

(***************************************************************************)
(* Paths: FindPath and Hash.                                               *)
(***************************************************************************)
\* Paths.FindPath: the position in PathItems of the first pair whose key
\* text is the path, 0 when there is none (the nil result)
FindPath(paths, path) == OMPos(paths.PathItems, path)

\* the pairs of a Go map in the order an iteration happens to visit them
RECURSIVE MapRange(_)
MapRange(m) ==
    IF m = {} THEN <<>>
    ELSE LET e == CHOOSE x \in m : TRUE IN <<e>> \o MapRange(m \ {e})

\* the value the string-keyed map of Hash holds for a key: the value of
\* the last pair of the ordered map with that key text
LastValue(m, text) ==
    m[CHOOSE i \in 1..Len(m) :
          /\ m[i].key.Value = text
          /\ \A k \in (i + 1)..Len(m) : m[k].key.Value # text].value

\* the "key-hexhash" renderings of the children, keys sorted
ChildLines(m) ==
    LET l == SortStrings([i \in 1..Len(m) |-> m[i].key.Value])
    IN [k \in 1..Len(l) |->
           SprintfDash(l[k], GenerateHashString(LastValue(m, l[k]).Value.Body))]

\* the "key-hexhash" renderings of the extensions, sorted
ExtLines(exts) ==
    LET es == MapRange(exts)
    IN SortStrings([z \in 1..Len(es) |->
                       SprintfDash(es[z].key.Value, ExtValueHex(es[z].value))])

\* Paths.Hash
PathsHash(paths) ==
    Sum256(Join(ChildLines(paths.PathItems) \o ExtLines(paths.Extensions), Bar))

(***************************************************************************)
(* Paths.Build: the function handed to TranslatePipeline.                  *)
(***************************************************************************)
\* low.LocateRefNode: the node a reference points to (0 when the index has
\* none, and when there is no index) and the error of the lookup
LocateRefNode(pNode, ix) ==
    IF ix.IsNil \/ pNode.Ref = RefMissing
    THEN [r |-> NilPtr, err |-> MkErr("not found", pNode.Ref, 0, 0)]
    ELSE IF pNode.Ref = RefCircular
    THEN [r |-> IndexIds.circular, err |-> MkErr("circular", pNode.Ref, 0, 0)]
    ELSE [r |-> IndexIds.found, err |-> NoErr]

Outcome(kind, key, value, err, log) ==
    [kind |-> kind, key |-> key, value |-> value, err |-> err, log |-> log]

\* the construction of the child and of the result, once pNode is known
BuildPathItem(cNode, pNode, ix) ==
    LET failed == NodeOf(pNode).Fails
        path == Child(pNode, NodeOf(pNode).Body, failed)
        log == IF failed /\ ~ix.IsNil /\ ix.HasLogger
               THEN {MkErr("error building path item", <<>>, NodeOf(pNode).Line,
                           NodeOf(pNode).Column)}
               ELSE {}
    IN IF cNode = NilPtr
       THEN Outcome("panic", KeyRef(<<>>, NilPtr), ValueRef(NoChild, NilPtr), NoErr, log)
       ELSE Outcome("ok", KeyRef(NodeOf(cNode).Value, cNode), ValueRef(path, pNode),
                    NoErr, log)

Failure(err) ==
    Outcome("err", KeyRef(<<>>, NilPtr), ValueRef(NoChild, NilPtr), err, {})

\* the translate function of Paths.Build
Translate(value, ix) ==
    LET pNode == NodeOf(value.pathNode)
        cNode == value.currentNode
        loc == LocateRefNode(pNode, ix)
    IN IF IsNodeRefValue(pNode)
       THEN IF loc.r # NilPtr
            THEN IF loc.err # NoErr /\ ~ix.AllowCircular
                 THEN Failure(MkErr("path item build failed", loc.err.text,
                                    loc.err.line, loc.err.col))
                 ELSE BuildPathItem(cNode, loc.r, ix)
            ELSE Failure(MkErr("cannot find reference", pNode.Ref, pNode.RefLine,
                               pNode.RefColumn))
       ELSE BuildPathItem(cNode, value.pathNode, ix)

(***************************************************************************)
(* Paths.Build: the main goroutine, the input goroutine, the pipeline and  *)
(* the output goroutine.  The channels in, out and done are unbuffered: a  *)
(* send and its receive are one step.                                      *)
(***************************************************************************)
Running == pc = "running"

NewProd == [pc |-> "iter", i |-> 0, skip |-> FALSE, currentNode |-> NilPtr]
NewPipe == [inflight |-> {}, ready |-> {}, reterr |-> NoErr,
            cancelled |-> FALSE, returned |-> FALSE]
NewChans == [in |-> 0, out |-> 0, done |-> 0]

\* a mutation of wg.Wait that does not wait
WgWaitSkipped(n) == TRUE

\* wg.Wait returns when the counter is zero
WgWait(n) == n = 0

\* a mutation of the output goroutine's test that takes out for closed
OutClosedAlways(c) == TRUE

\* the receive from out reports !ok: out is closed (and drained)
OutClosed(c) == c.out > 0

\* Paths.Build up to the start of the goroutines
BuildStart ==
    /\ pc = "idle"
    /\ runs < MaxRuns
    /\ runs' = runs + 1
    /\ prevP' = p
    /\ p' = [p EXCEPT !.Reference = TRUE, !.Extensions = ExtractExtensions(root)]
    /\ pathsMap' = <<>>
    /\ chans' = NewChans
    /\ wg' = 2
    /\ prod' = NewProd
    /\ cons' = "recv"
    /\ pipe' = NewPipe
    /\ sent' = <<>>
    /\ pc' = "running"
    /\ ctx' = "live"
    /\ UNCHANGED <<root, idx, ret, logs, notPaths>>

\* one iteration of the input goroutine's loop that sends nothing
ProducerIter ==
    /\ Running
    /\ prod.pc = "iter"
    /\ prod.i < Len(root.Content)
    /\ LET pathNode == root.Content[prod.i + 1]
       IN prod' =
            IF HasPrefix(ToLower(pathNode.Value), ExtPrefix)
            THEN [prod EXCEPT !.skip = TRUE, !.i = @ + 1]
            ELSE IF prod.skip
            THEN [prod EXCEPT !.skip = FALSE, !.i = @ + 1]
            ELSE IF prod.i % 2 = 0
            THEN [prod EXCEPT !.currentNode = prod.i + 1, !.i = @ + 1]
            ELSE [prod EXCEPT !.pc = "send"]
    /\ UNCHANGED <<root, idx, p, pc, ret, runs, prevP, pathsMap, chans, wg, cons,
                   pipe, sent, logs, ctx, notPaths>>

\* the input goroutine ends: the loop is over, or done was closed while it
\* waited to send; the deferred function closes in
ProducerExit ==
    /\ Running
    /\ \/ prod.pc = "iter" /\ prod.i = Len(root.Content)
       \/ prod.pc = "send" /\ chans.done > 0
    /\ prod' = [prod EXCEPT !.pc = "exited"]
    /\ chans' = [chans EXCEPT !.in = @ + 1]
    /\ wg' = wg - 1
    /\ UNCHANGED <<root, idx, p, pc, ret, runs, prevP, pathsMap, cons, pipe, sent,
                   logs, ctx, notPaths>>

\* a worker of the pipeline receives the pair the input goroutine sends
WorkerTake ==
    /\ Running
    /\ prod.pc = "send"
    /\ ~pipe.cancelled
    /\ Cardinality(pipe.inflight) + Cardinality(pipe.ready) < Concurrency
    /\ LET value == [currentNode |-> prod.currentNode, pathNode |-> prod.i + 1]
       IN /\ pipe' = [pipe EXCEPT !.inflight = @ \cup {value}]
          /\ sent' = Append(sent, value)
    /\ prod' = [prod EXCEPT !.pc = "iter", !.i = @ + 1]
    /\ UNCHANGED <<root, idx, p, pc, ret, runs, prevP, pathsMap, chans, wg, cons,
                   logs, ctx, notPaths>>

\* a worker runs the translate function on its pair: the result waits to
\* be sent on out, the first error is kept and cancels the pipeline, a nil
\* key node panics
WorkerTranslate ==
    /\ Running
    /\ \E value \in pipe.inflight :
         LET o == Translate(value, idx)
         IN /\ logs' = logs \cup o.log
            /\ pc' = IF o.kind = "panic" THEN "panic" ELSE pc
            /\ pipe' =
                 IF o.kind = "ok"
                 THEN [pipe EXCEPT !.inflight = @ \ {value},
                                   !.ready = @ \cup {[key |-> o.key, value |-> o.value]}]
                 ELSE IF o.kind = "err"
                 THEN [pipe EXCEPT !.inflight = @ \ {value},
                                   !.reterr = IF @ = NoErr THEN o.err ELSE @,
                                   !.cancelled = TRUE]
                 ELSE pipe
    /\ UNCHANGED <<root, idx, p, ret, runs, prevP, pathsMap, chans, wg, prod, cons,
                   sent, ctx, notPaths>>

\* the output goroutine receives one result from out and stores it
ConsumerRecv ==
    /\ Running
    /\ cons = "recv"
    /\ chans.out = 0
    /\ \E result \in pipe.ready :
         /\ pathsMap' = OMSet(pathsMap, result.key, result.value)
         /\ pipe' = [pipe EXCEPT !.ready = @ \ {result}]
    /\ UNCHANGED <<root, idx, p, pc, ret, runs, prevP, chans, wg, prod, cons, sent,
                   logs, ctx, notPaths>>

\* the pipeline is drained (in is closed and every result was delivered,
\* or it was cancelled and its workers are done): it closes out and returns
PipelineReturn ==
    /\ Running
    /\ ~pipe.returned
    /\ pipe.inflight = {}
    /\ \/ chans.in > 0 /\ pipe.ready = {}
       \/ pipe.cancelled
    /\ pipe' = [pipe EXCEPT !.returned = TRUE, !.ready = {}]
    /\ chans' = [chans EXCEPT !.out = @ + 1]
    /\ UNCHANGED <<root, idx, p, pc, ret, runs, prevP, pathsMap, wg, prod, cons,
                   sent, logs, ctx, notPaths>>

\* the output goroutine finds out closed: it closes done and ends
ConsumerExit ==
    /\ Running
    /\ cons = "recv"
    /\ OutClosed(chans)
    /\ cons' = "exited"
    /\ chans' = [chans EXCEPT !.done = @ + 1]
    /\ wg' = wg - 1
    /\ UNCHANGED <<root, idx, p, pc, ret, runs, prevP, pathsMap, prod, pipe, sent,
                   logs, ctx, notPaths>>

\* Paths.Build after TranslatePipeline: wg.Wait, then the error or the map
BuildReturn ==
    /\ Running
    /\ pipe.returned
    /\ WgWait(wg)
    /\ ret' = pipe.reterr
    /\ p' = IF pipe.reterr # NoErr THEN p ELSE [p EXCEPT !.PathItems = pathsMap]
    /\ pc' = "idle"
    /\ UNCHANGED <<root, idx, runs, prevP, pathsMap, chans, wg, prod, cons, pipe,
                   sent, logs, ctx, notPaths>>

\* the caller cancels the context while Paths.Build runs
CtxCancel ==
    /\ Running
    /\ ctx = "live"
    /\ ctx' = "cancelled"
    /\ UNCHANGED <<root, idx, p, pc, ret, runs, prevP, pathsMap, chans, wg, prod,
                   cons, pipe, sent, logs, notPaths>>

NewPaths == [PathItems |-> <<>>, Extensions |-> {}, Reference |-> FALSE]
NewResponses == [Codes |-> <<>>, Default |-> EmptyNodeRef, Extensions |-> {}]

PathsIdle ==
    /\ p = NewPaths
    /\ pc = "idle"
    /\ ret = NoErr
    /\ runs = 0
    /\ prevP = NewPaths
    /\ pathsMap = <<>>
    /\ chans = NewChans
    /\ wg = 0
    /\ prod = NewProd
    /\ cons = "recv"
    /\ pipe = NewPipe
    /\ sent = <<>>
    /\ logs = {}
    /\ ctx = "live"

RespIdle ==
    /\ r = NewResponses
    /\ rRoot = MkRoot("scalar", <<>>)
    /\ rRet = NoErr
    /\ rPrev = NewResponses
    /\ builds = 0

HashIdle ==
    /\ hIn = [kind |-> "none"]
    /\ hOut = <<>>

(***************************************************************************)
(* Responses: Build, getDefault, deleteCode, FindResponseByCode, Hash.     *)
(***************************************************************************)
\* response keys: a status code, "default", "Default" and an extension
RespKeyKinds == {"code", "default", "Default", "ext"}
RespKeyText(kind, j) ==
    IF kind = "code" THEN <<53 - j, 48, 48>>
    ELSE IF kind = "default" THEN DefaultLabel
    ELSE IF kind = "Default" THEN <<68>> \o Tail(DefaultLabel)
    ELSE <<120, 45, KeyLetter(j)>>

RespValueKinds == {"obj", "bad"}

RECURSIVE RespContent(_, _)
RespContent(pairs, j) ==
    IF pairs = <<>> THEN <<>>
    ELSE <<MkNode("scalar", RespKeyText(pairs[1][1], j), 10 + j, 1, <<>>, 0, FALSE),
           ValueNode(pairs[1][2], j)>> \o RespContent(Tail(pairs), j + 1)

\* the keys of a mapping are distinct
DistinctKeys(content) ==
    \A i, k \in 1..Len(content) :
        (i % 2 = 1 /\ k % 2 = 1 /\ i # k) => content[i].Value # content[k].Value

RespContents ==
    {c \in {RespContent(ps, 0) :
               ps \in UNION {[1..k -> RespKeyKinds \X RespValueKinds] : k \in 0..MaxCodes}} :
        DistinctKeys(c)}

\* the roots handed to Responses.Build: mappings, sequences and one scalar
RespRoots ==
    {MkRoot("map", c) : c \in RespContents}
    \cup {MkRoot("seq", c) : c \in SeqContents(MaxSeqItems)}
    \cup {MkRoot("scalar", <<>>)}

\* low.ExtractMapNoLookup: the children of a mapping that are not
\* extensions, built in document order; the first child whose Build fails
\* ends the extraction with its error
RECURSIVE ExtractFrom(_, _, _)
ExtractFrom(rt, i, codes) ==
    IF i + 1 > Len(rt.Content) THEN [codes |-> codes, err |-> NoErr]
    ELSE IF HasPrefix(rt.Content[i].Value, ExtPrefix)
    THEN ExtractFrom(rt, i + 2, codes)
    ELSE IF rt.Content[i + 1].Fails
    THEN [codes |-> <<>>,
          err |-> MkErr("child build failed", rt.Content[i].Value,
                        rt.Content[i + 1].Line, rt.Content[i + 1].Column)]
    ELSE ExtractFrom(rt, i + 2,
             OMSet(codes, KeyRef(rt.Content[i].Value, i),
                   ValueRef(Child(i + 1, rt.Content[i + 1].Body, FALSE), i + 1)))

ExtractMapNoLookup(rt) == ExtractFrom(rt, 1, <<>>)

\* Responses.getDefault: the first pair whose lowered key text is
\* "default", as a NodeReference; the empty reference stands for nil
GetDefault(codes) ==
    IF \E i \in 1..Len(codes) : ToLower(codes[i].key.Value) = DefaultLabel
    THEN LET i == CHOOSE i \in 1..Len(codes) :
                      /\ ToLower(codes[i].key.Value) = DefaultLabel
                      /\ \A k \in 1..(i - 1) : ToLower(codes[k].key.Value) # DefaultLabel
         IN NodeRef(codes[i].value.Value, codes[i].key.KeyNode, codes[i].value.ValueNode)
    ELSE EmptyNodeRef

\* Responses.deleteCode: delete the first pair whose key text is the code
DeleteCode(codes, code) == OMDelete(codes, code)

\* Responses.FindResponseByCode: the position of the pair in Codes, 0 for nil
FindResponseByCode(resp, code) == OMPos(resp.Codes, code)

\* a mutation of the error of Responses.Build: line and column exchanged
NotAMapErrSwapped(rt) == MkErr("responses build failed: vn node is not a map", <<>>, rt.Column, rt.Line)

\* the error Responses.Build returns for a root that is not a mapping
NotAMapErr(rt) == MkErr("responses build failed: vn node is not a map", <<>>, rt.Line, rt.Column)

\* a mutation of Responses.Build that goes on after a failed extraction
ResponsesBuiltErrIgnored(resp, rt) ==
    LET r1 == [resp EXCEPT !.Extensions = ExtractExtensions(rt)]
        r2 == [r1 EXCEPT !.Codes = ExtractMapNoLookup(rt).codes]
    IN IF IsNodeMap(rt)
       THEN [r |-> [r2 EXCEPT !.Default = GetDefault(r2.Codes)], err |-> NoErr]
       ELSE [r |-> r1, err |-> NotAMapErr(rt)]

\* Responses.Build: the value left and the error returned
ResponsesBuilt(resp, rt) ==
    LET r1 == [resp EXCEPT !.Extensions = ExtractExtensions(rt)]
        ex == ExtractMapNoLookup(rt)
        r2 == [r1 EXCEPT !.Codes = ex.codes]
        def == GetDefault(r2.Codes)
    IN IF IsNodeMap(rt)
       THEN IF ex.err # NoErr
            THEN [r |-> r1, err |-> ex.err]
            ELSE IF def # EmptyNodeRef
            THEN [r |-> [r2 EXCEPT !.Default = def,
                                   !.Codes = DeleteCode(r2.Codes, DefaultLabel)],
                  err |-> NoErr]
            ELSE [r |-> r2, err |-> NoErr]
       ELSE [r |-> r1, err |-> NotAMapErr(rt)]

\* a mutation of Responses.Hash that appends the Default after the extensions
ResponsesHashDefaultLast(resp) ==
    Sum256(Join(ChildLines(resp.Codes)
                  \o ExtLines(resp.Extensions)
                  \o (IF ~IsEmpty(resp.Default)
                      THEN <<GenerateHashString(resp.Default.Value.Body)>> ELSE <<>>), Bar))

\* Responses.Hash
ResponsesHash(resp) ==
    Sum256(Join(ChildLines(resp.Codes)
                  \o (IF ~IsEmpty(resp.Default)
                      THEN <<GenerateHashString(resp.Default.Value.Body)>> ELSE <<>>)
                  \o ExtLines(resp.Extensions), Bar))

\* one call of Responses.Build
ResponsesBuild ==
    /\ builds < MaxBuilds
    /\ builds' = builds + 1
    /\ rPrev' = r
    /\ r' = ResponsesBuilt(r, rRoot).r
    /\ rRet' = ResponsesBuilt(r, rRoot).err
    /\ UNCHANGED <<rRoot, notResp>>

\* a Responses value is new, or was built before from another document
BuiltBefore ==
    ResponsesBuilt(NewResponses,
        MkRoot("map", RespContent(<<<<"default", "obj">>, <<"code", "obj">>>>, 0))).r

\* Responses.Build on every root of the bounds
RespInit ==
    /\ root = MkRoot("scalar", <<>>)
    /\ idx \in Indexes(root)
    /\ PathsIdle
    /\ r \in {NewResponses, BuiltBefore}
    /\ rRoot \in RespRoots
    /\ rRet = NoErr
    /\ rPrev = r
    /\ builds = 0
    /\ HashIdle

SpecResponses == RespInit /\ [][ResponsesBuild]_vars

(***************************************************************************)
(* Hash on objects that hold the same children in different orders.        *)
(***************************************************************************)
\* the children of an object: distinct key texts, each with a content;
\* the key and value nodes are those of the document the object came from
HashKeys == {KeyText("path", j) : j \in 0..(MaxHashLen - 1)}
HashBodies == {1, 2}

ChildMaps ==
    UNION {{m \in [1..n -> HashKeys \X HashBodies] :
               \A i, k \in 1..n : i # k => m[i][1] # m[k][1]} : n \in 0..MaxHashLen}

\* the ordered map that holds the children in the order given
OMOf(m) ==
    [i \in 1..Len(m) |->
        [key |-> KeyRef(m[i][1], 2 * i - 1),
         value |-> ValueRef(Child(2 * i, m[i][2], FALSE), 2 * i)]]

Orderings(n) == {f \in [1..n -> 1..n] : \A i, k \in 1..n : i # k => f[i] # f[k]}
Permuted(m, f) == [i \in 1..Len(m) |-> m[f[i]]]

HashExtensions ==
    {{}, {[key |-> KeyRef(<<120, 45, 97>>, 7), value |-> 1]},
     {[key |-> KeyRef(<<120, 45, 97>>, 7), value |-> 1],
      [key |-> KeyRef(<<120, 45, 65>>, 9), value |-> 2]}}

HashDefaults == {EmptyNodeRef, NodeRef(Child(12, 1, FALSE), 11, 12)}

\* two objects with the same children, extensions and Default, the
\* children inserted in two orders
HashInput(kind, exts, def, m, f) ==
    [kind |-> kind, exts |-> exts, def |-> def, a |-> OMOf(m), b |-> OMOf(Permuted(m, f))]

\* Hash of both objects, and of the first one with its Default emptied
HashBoth ==
    /\ hOut = <<>>
    /\ hIn.kind \in {"Paths", "Responses"}
    /\ hOut' =
         IF hIn.kind = "Paths"
         THEN <<PathsHash([PathItems |-> hIn.a, Extensions |-> hIn.exts, Reference |-> TRUE]),
                PathsHash([PathItems |-> hIn.b, Extensions |-> hIn.exts, Reference |-> TRUE]),
                PathsHash([PathItems |-> hIn.a, Extensions |-> hIn.exts, Reference |-> TRUE])>>
         ELSE <<ResponsesHash([Codes |-> hIn.a, Default |-> hIn.def, Extensions |-> hIn.exts]),
                ResponsesHash([Codes |-> hIn.b, Default |-> hIn.def, Extensions |-> hIn.exts]),
                ResponsesHash([Codes |-> hIn.a, Default |-> EmptyNodeRef,
                               Extensions |-> hIn.exts])>>
    /\ UNCHANGED <<hIn, notHash>>

\* Hash on every pair of objects of the bounds
HashInit ==
    /\ root = MkRoot("scalar", <<>>)
    /\ idx \in Indexes(root)
    /\ PathsIdle
    /\ RespIdle
    /\ \E kind \in {"Paths", "Responses"}, exts \in HashExtensions, m \in ChildMaps :
         \E def \in IF kind = "Paths" THEN {EmptyNodeRef} ELSE HashDefaults,
            f \in Orderings(Len(m)) :
             hIn = HashInput(kind, exts, def, m, f)
    /\ hOut = <<>>

SpecHash == HashInit /\ [][HashBoth]_vars

\* Paths.Build on every root and index of the bounds
Init ==
    /\ root \in PathsRoots
    /\ idx \in Indexes(root)
    /\ PathsIdle
    /\ RespIdle
    /\ HashIdle

Next ==
    \/ BuildStart
    \/ ProducerIter
    \/ ProducerExit
    \/ WorkerTake
    \/ WorkerTranslate
    \/ ConsumerRecv
    \/ PipelineReturn
    \/ ConsumerExit
    \/ BuildReturn
    \/ CtxCancel

Spec == Init /\ [][Next]_vars

\* Paths.Build on the mapping roots of at most MaxChanPairs pairs: the
\* channels, the WaitGroup and the local map go through the same steps
\* whatever the number of pairs (a pair is sent, the next one waits)
ChanInit ==
    /\ root \in {MkRoot("map", FlatContent(ps, 0)) : ps \in PairSeqs(MaxChanPairs)}
    /\ idx \in Indexes(root)
    /\ PathsIdle
    /\ RespIdle
    /\ HashIdle

SpecChannels == ChanInit /\ [][Next]_vars

(***************************************************************************)
(* Properties.                                                             *)
(***************************************************************************)
\* Paths.Build has returned
Returned == pc = "idle" /\ runs >= 1

\* the positions in root.Content of the keys of the pairs
KeyPositions == {i \in 1..(Len(root.Content) - 1) : i % 2 = 1}

\* C1: Paths.Hash and Responses.Hash give two objects that hold the same
\* children (key text and content), the same extensions and the same
\* Default one digest, whatever the order of their ordered maps
C1_HashOrderIndependent ==
    hOut # <<>> => hOut[1] = hOut[2]

\* a Responses object with a Default and three children was hashed beside
\* one that holds the children in another order
C1_Witness ==
    /\ hOut # <<>>
    /\ hIn.kind = "Responses"
    /\ ~IsEmpty(hIn.def)
    /\ Len(hIn.a) = 3
    /\ \E i \in 1..3 : hIn.a[i].key.Value # hIn.b[i].key.Value
    /\ hOut[1] = hOut[2]

\* C2: every run of Paths.Build on the same root and index leaves a Paths
\* value with the same Hash as the run before, whatever the interleaving
\* of the goroutines and the order of PathItems
C2_BuildHashDeterministic ==
    (Returned /\ runs >= 2) => PathsHash(p) = PathsHash(prevP)

\* the key at position i is skipped by the input goroutine as an extension
IsExtKey(i) == HasPrefix(ToLower(root.Content[i].Value), ExtPrefix)

\* the pair at key position i holds a reference the index has no node for
Unresolvable(i) ==
    /\ ~IsExtKey(i)
    /\ IsNodeRefValue(root.Content[i + 1])
    /\ LocateRefNode(root.Content[i + 1], idx).r = NilPtr

\* the pair at key position i holds a reference the index locates
\* together with a circular reference error
Circular(i) ==
    /\ ~IsExtKey(i)
    /\ IsNodeRefValue(root.Content[i + 1])
    /\ LocateRefNode(root.Content[i + 1], idx).r # NilPtr
    /\ LocateRefNode(root.Content[i + 1], idx).err # NoErr

\* C3: after a successful Paths.Build on a mapping, Extensions holds
\* exactly the pairs whose key begins with "x-", PathItems holds exactly
\* one pair for every other key, and no key of PathItems begins with "x-"
C3_KeysPartitioned ==
    (Returned /\ ret = NoErr /\ IsNodeMap(root)) =>
        LET ext == {i \in KeyPositions : HasPrefix(root.Content[i].Value, ExtPrefix)}
        IN /\ p.Extensions =
                {[key |-> KeyRef(root.Content[i].Value, i),
                  value |-> root.Content[i + 1].Body] : i \in ext}
           /\ Len(p.PathItems) = Cardinality(KeyPositions \ ext)
           /\ \A i \in KeyPositions \ ext :
                  \E k \in 1..Len(p.PathItems) :
                      p.PathItems[k].key = KeyRef(root.Content[i].Value, i)
           /\ \A k \in 1..Len(p.PathItems) :
                  ~HasPrefix(p.PathItems[k].key.Value, ExtPrefix)

\* C4: after a successful Responses.Build on a mapping with a key that is
\* "default" in any case, Default holds the first such pair, no key of
\* Codes is "default" in any case, FindResponseByCode finds none for that
\* key, and the other codes keep their order
C4_DefaultExtracted ==
    (builds >= 1 /\ rRet = NoErr /\ IsNodeMap(rRoot)) =>
        LET all == ExtractMapNoLookup(rRoot).codes
            defs == {i \in 1..Len(all) : ToLower(all[i].key.Value) = DefaultLabel}
        IN defs # {} =>
             LET d == CHOOSE i \in defs : \A k \in defs : i <= k
             IN /\ r.Default = NodeRef(all[d].value.Value, all[d].key.KeyNode,
                                       all[d].value.ValueNode)
                /\ \A k \in 1..Len(r.Codes) : ToLower(r.Codes[k].key.Value) # DefaultLabel
                /\ FindResponseByCode(r, all[d].key.Value) = 0
                /\ r.Codes = SubSeq(all, 1, d - 1) \o SubSeq(all, d + 1, Len(all))

\* C5: after a successful Paths.Build, every pair of the root whose value
\* is a reference the index locates is in PathItems under its own key node
\* and key text, with the located node as value node and as the node the
\* PathItem was built from, and FindPath finds it by its key text
C5_ReferenceResolved ==
    (Returned /\ ret = NoErr /\ IsNodeMap(root)) =>
        \A i \in KeyPositions :
            (/\ ~IsExtKey(i)
             /\ IsNodeRefValue(root.Content[i + 1])
             /\ LocateRefNode(root.Content[i + 1], idx).r # NilPtr) =>
                LET target == LocateRefNode(root.Content[i + 1], idx).r
                    k == FindPath(p, root.Content[i].Value)
                IN /\ k # 0
                   /\ p.PathItems[k].key = KeyRef(root.Content[i].Value, i)
                   /\ p.PathItems[k].value.ValueNode = target
                   /\ p.PathItems[k].value.ValueNode # i + 1
                   /\ p.PathItems[k].value.Value.Root = target

\* C6: when a pair of the root holds a reference the index has no node
\* for (and no other pair fails for another reason), Paths.Build returns,
\* and returns the error that carries the text, the line and the column
\* of such a reference
C6_UnresolvableReferenceFails ==
    (/\ IsNodeMap(root)
     /\ \E i \in KeyPositions : Unresolvable(i)
     /\ \A i \in KeyPositions : ~Circular(i)) =>
        /\ pc # "panic"
        /\ Returned =>
             \E i \in KeyPositions :
                 /\ Unresolvable(i)
                 /\ ret = MkErr("cannot find reference", root.Content[i + 1].Ref,
                                root.Content[i + 1].RefLine, root.Content[i + 1].RefColumn)

\* C7: when a pair of the root holds a reference the index locates with a
\* circular reference error (and no other pair fails): if the index does
\* not allow circular references Paths.Build returns the error that names
\* the reference; if it does, Paths.Build returns nil and the pair is in
\* PathItems, built from the located node
C7_CircularPolicy ==
    (/\ IsNodeMap(root)
     /\ \E i \in KeyPositions : Circular(i)
     /\ \A i \in KeyPositions : ~Unresolvable(i)) =>
        /\ pc # "panic"
        /\ Returned =>
             IF idx.AllowCircular
             THEN /\ ret = NoErr
                  /\ \E k \in 1..Len(p.PathItems) :
                         /\ p.PathItems[k].value.ValueNode = IndexIds.circular
                         /\ p.PathItems[k].value.Value.Root = IndexIds.circular
             ELSE ret = MkErr("path item build failed", RefCircular, 0, 0)

\* C8: Responses.Build on a root that is not a mapping returns the error
\* that states the line and the column of the root, and leaves Codes and
\* Default as they were
C8_NonMapResponsesRejected ==
    (builds >= 1 /\ ~IsNodeMap(rRoot)) =>
        /\ rRet # NoErr
        /\ rRet.line = rRoot.Line
        /\ rRet.col = rRoot.Column
        /\ r.Codes = rPrev.Codes
        /\ r.Default = rPrev.Default

\* Responses.Build was called on a sequence of two items, on a value that
\* held codes and a Default
C8_Witness ==
    /\ builds >= 1
    /\ rRoot.Kind = "seq"
    /\ Len(rRoot.Content) = 2
    /\ rRet # NoErr
    /\ Len(r.Codes) >= 1
    /\ ~IsEmpty(r.Default)

\* C9: Paths.Build on a root that is not a mapping returns the error that
\* states the line and the column of the root, and hands no child of the
\* root to construction
C9_NonMapPathsRejected ==
    ~IsNodeMap(root) =>
        /\ sent = <<>>
        /\ Returned => (ret # NoErr /\ ret.line = root.Line /\ ret.col = root.Column)

\* C10: Paths.Build always ends: while it runs some goroutine can take a
\* step, and when it has returned the input and the output goroutines
\* have ended
C10_BuildTerminates ==
    /\ pc # "idle" =>
         ENABLED (ProducerIter \/ ProducerExit \/ WorkerTake \/ WorkerTranslate
                  \/ ConsumerRecv \/ PipelineReturn \/ ConsumerExit \/ BuildReturn)
    /\ Returned => (prod.pc = "exited" /\ cons = "exited" /\ wg = 0)

\* the result the translate function gives for a pair that was sent
ResultOf(value) ==
    [key |-> Translate(value, idx).key, value |-> Translate(value, idx).value]

\* C11: Paths.Build publishes no partly filled container: PathItems is as
\* it was before the call while Build runs and when Build returns an
\* error; when Build returns nil, PathItems is the local map and holds the
\* result of every pair the input goroutine sent
C11_NoPartialPublication ==
    /\ pc # "idle" => p.PathItems = prevP.PathItems
    /\ (Returned /\ ret # NoErr) => p.PathItems = prevP.PathItems
    /\ (Returned /\ ret = NoErr) =>
         /\ p.PathItems = pathsMap
         /\ \A k \in 1..Len(sent) :
                \E n \in 1..Len(p.PathItems) : p.PathItems[n] = ResultOf(sent[k])

\* C12: when the extraction of the children of a mapping root fails,
\* Responses.Build returns that error, and Codes and Default are as they
\* were before the call: nothing was assigned, set or deleted
C12_ExtractFailurePropagates ==
    (/\ builds >= 1
     /\ IsNodeMap(rRoot)
     /\ ExtractMapNoLookup(rRoot).err # NoErr) =>
        /\ rRet = ExtractMapNoLookup(rRoot).err
        /\ r.Codes = rPrev.Codes
        /\ r.Default = rPrev.Default

\* Responses.Build was called on {default: {...}, code: <a child that
\* fails>} for a new Responses value: the error came back, and neither
\* Codes nor Default was set although the first child had been decoded
C12_Witness ==
    /\ builds >= 1
    /\ IsNodeMap(rRoot)
    /\ Len(rRoot.Content) = 4
    /\ rRoot.Content[1].Value = DefaultLabel
    /\ ~rRoot.Content[2].Fails
    /\ rRoot.Content[4].Fails
    /\ rRet.kind = "child build failed"
    /\ r.Codes = <<>>
    /\ IsEmpty(r.Default)

\* the pair at key position i is handed to construction and the Build of
\* its child fails
ChildFails(i) ==
    /\ ~IsExtKey(i)
    /\ ~IsNodeRefValue(root.Content[i + 1])
    /\ root.Content[i + 1].Fails

\* no pair of the root fails on its reference
NoReferenceFailure ==
    \A i \in KeyPositions :
        /\ ~Unresolvable(i)
        /\ Circular(i) => idx.AllowCircular

\* C13: when the Build of a child fails and no reference fails,
\* Paths.Build does not stop: it returns nil, and every other pair that is
\* not an extension is in PathItems under its own key node and key text,
\* with its own value node (or the node its reference points to)
C13_ChildFailureTolerated ==
    (/\ IsNodeMap(root)
     /\ \E i \in KeyPositions : ChildFails(i)
     /\ NoReferenceFailure) =>
        /\ pc # "panic"
        /\ Returned =>
             /\ ret = NoErr
             /\ \A i \in KeyPositions :
                    (~IsExtKey(i) /\ ~ChildFails(i)) =>
                        \E k \in 1..Len(p.PathItems) :
                            /\ p.PathItems[k].key = KeyRef(root.Content[i].Value, i)
                            /\ p.PathItems[k].value.ValueNode =
                                 IF IsNodeRefValue(root.Content[i + 1])
                                 THEN LocateRefNode(root.Content[i + 1], idx).r
                                 ELSE i + 1

\* the Build of the child made for a pair that was sent returns an error
ChildBuildFailed(value) ==
    /\ ~IsNodeRefValue(NodeOf(value.pathNode))
    /\ NodeOf(value.pathNode).Fails

\* C14: no failure of a child's Build is dropped silently: when
\* Paths.Build has returned, for every pair whose child failed to build
\* either Build returned an error or the logger was given the failure,
\* whatever the index (nil, or without a logger)
C14_ChildFailureReported ==
    Returned =>
        \A k \in 1..Len(sent) :
            ChildBuildFailed(sent[k]) =>
                \/ ret # NoErr
                \/ MkErr("error building path item", <<>>, NodeOf(sent[k].pathNode).Line,
                         NodeOf(sent[k].pathNode).Column) \in logs

\* C15: every suspension point of Paths.Build observes the context: once
\* the context is cancelled no pair can be submitted to construction, the
\* input goroutine blocked in its send can leave, and the output goroutine
\* blocked in its receive can leave
C15_ContextObserved ==
    (Running /\ ctx = "cancelled") =>
        /\ ~ENABLED WorkerTake
        /\ prod.pc = "send" => ENABLED ProducerExit
        /\ (cons = "recv" /\ pipe.ready = {}) => ENABLED ConsumerExit

\* the input goroutine is past the pair at key position i: its value was
\* sent or passed over
PastPair(i) == prod.i > i

\* the value of the pair at key position i was sent on the in channel
ValueSent(i) == \E k \in 1..Len(sent) : sent[k].pathNode = i + 1

\* C16: the input goroutine skips a pair because of its key only: once it
\* is past a pair of a mapping root, the pair's value was sent if and only
\* if the text of its key does not begin with "x-" in any case, whatever
\* the texts of the values
C16_SkipByKeyOnly ==
    IsNodeMap(root) =>
        \A i \in KeyPositions : PastPair(i) => (ValueSent(i) <=> ~IsExtKey(i))

\* C17: every pair sent on the in channel holds a key node that is not nil
\* and sits at an even index of root.Content, with the value node that
\* follows it; the pairs are sent in the order of the document
C17_PairsWellFormed ==
    IsNodeMap(root) =>
        \A k \in 1..Len(sent) :
            /\ sent[k].currentNode # NilPtr
            /\ sent[k].currentNode % 2 = 1
            /\ sent[k].pathNode = sent[k].currentNode + 1
            /\ k > 1 => sent[k - 1].currentNode < sent[k].currentNode

\* C18: the local ordered map changes only when a call of Build makes it
\* anew or when the output goroutine, still running, stores one result it
\* received from out; Build returns (and so reads and publishes the map)
\* only when the output goroutine has ended, and what it publishes is
\* the map as the output goroutine left it
C18_MapOwnedByConsumer ==
    [][(/\ pathsMap' # pathsMap =>
             \/ pc = "idle" /\ pathsMap' = <<>>
             \/ /\ cons = "recv"
                /\ cons' = "recv"
                /\ \E result \in pipe.ready :
                       /\ pathsMap' = OMSet(pathsMap, result.key, result.value)
                       /\ pipe'.ready = pipe.ready \ {result}
        /\ (pc = "running" /\ pc' = "idle") =>
             /\ cons = "exited"
             /\ pathsMap' = pathsMap
             /\ (ret' = NoErr => p'.PathItems = pathsMap)
        /\ p'.PathItems # p.PathItems => (pc = "running" /\ pc' = "idle"))]_vars

\* Build has returned nil after the output goroutine stored two results
\* and ended
C18_Witness ==
    /\ Returned
    /\ ret = NoErr
    /\ cons = "exited"
    /\ Len(pathsMap) >= 2
    /\ p.PathItems = pathsMap

\* the strings of a set in increasing order
Increasing(S) ==
    CHOOSE q \in [1..Cardinality(S) -> S] :
        \A i, k \in 1..Cardinality(S) : i < k => StrLess(q[i], q[k])

C20_ChannelDiscipline ==
    /\ chans.in <= 1 /\ chans.out <= 1 /\ chans.done <= 1
    /\ chans.in = 1 <=> prod.pc = "exited"
    /\ chans.in = 1 => (prod.i = Len(root.Content) \/ chans.done = 1)
    /\ chans.in = 1 => ~ENABLED WorkerTake
    /\ chans.done = 1 <=> cons = "exited"
    /\ chans.done = 1 => (chans.out = 1 /\ pipe.ready = {})
    /\ chans.out = 1 => ~ENABLED ConsumerRecv
    /\ Returned => chans = [in |-> 1, out |-> 1, done |-> 1]

\* Build has returned an error after the input goroutine, blocked in the
\* send of a later pair, left because done was closed, and closed in
C20_Witness ==
    /\ Returned
    /\ ret # NoErr
    /\ prod.pc = "exited"
    /\ prod.i < Len(root.Content)
    /\ chans = [in |-> 1, out |-> 1, done |-> 1]

====
